---- MODULE Spec2Model ----
(***************************************************************************)
(* The verified-registry actor: its State (actors/verifreg/src/state.rs),   *)
(* the DataCap type, the removal proposal and the pair key                  *)
(* (actors/verifreg/src/types.rs), and the remove-verified-client-data-cap *)
(* method as the test drives it (test_vm/tests/verifreg_remove_datacap_    *)
(* test.rs).  One action per method invocation; the invocation record of   *)
(* the message is kept until the caller takes it.                           *)
(***************************************************************************)
EXTENDS Integers, Sequences, FiniteSets

\* ------------------------------------------------------------ bounds
\* Largest data-cap amount (bytes) a caller names in a request or a cap.
MaxAmount == 2
\* Most removals that succeed in one run; a proposal id is at most this.
MaxRemovals == 2
\* Largest allowance (bytes) the root gives a verifier.
MaxCap == 1

\* The most limbs a quantity drawn for the conversions has.
MaxLimbs == 3

\* The most bytes the id of an address drawn for the pair keys is encoded in.
MaxIdBytes == 3

\* ------------------------------------------------------------ BigInt
\* fvm_shared::bigint::BigInt is a sign and a magnitude; the magnitude is a
\* little-endian sequence of limbs in base LimbBase with no leading zero limb.
LimbBase == 1000000000

Limbs == 0 .. (LimbBase - 1)

BigZero == [neg |-> FALSE, mag |-> <<>>]

\* BigInt::from(i) for a machine integer |i| < LimbBase.
BigFrom(i) ==
    IF i = 0 THEN BigZero
    ELSE [neg |-> i < 0, mag |-> << IF i < 0 THEN 0 - i ELSE i >>]

RECURSIVE MagNorm(_)
MagNorm(m) ==
    IF m = <<>> THEN <<>>
    ELSE IF m[Len(m)] = 0 THEN MagNorm(SubSeq(m, 1, Len(m) - 1))
    ELSE m

\* -1, 0, 1 as magnitude a is below, equal to, above magnitude b.
RECURSIVE MagCmpFrom(_, _, _)
MagCmpFrom(a, b, i) ==
    IF i = 0 THEN 0
    ELSE IF a[i] < b[i] THEN -1
    ELSE IF a[i] > b[i] THEN 1
    ELSE MagCmpFrom(a, b, i - 1)

MagCmp(a, b) ==
    IF Len(a) < Len(b) THEN -1
    ELSE IF Len(a) > Len(b) THEN 1
    ELSE MagCmpFrom(a, b, Len(a))

MagLimb(m, i) == IF i <= Len(m) THEN m[i] ELSE 0

RECURSIVE MagAddFrom(_, _, _, _)
MagAddFrom(a, b, i, carry) ==
    IF i > Len(a) /\ i > Len(b)
    THEN IF carry = 0 THEN <<>> ELSE <<carry>>
    ELSE LET s == MagLimb(a, i) + MagLimb(b, i) + carry
         IN  <<s % LimbBase>> \o MagAddFrom(a, b, i + 1, s \div LimbBase)

MagAdd(a, b) == MagAddFrom(a, b, 1, 0)

\* a - b for magnitudes with a >= b.
RECURSIVE MagSubFrom(_, _, _, _)
MagSubFrom(a, b, i, borrow) ==
    IF i > Len(a) THEN <<>>
    ELSE LET d == MagLimb(a, i) - MagLimb(b, i) - borrow
         IN  IF d < 0 THEN <<d + LimbBase>> \o MagSubFrom(a, b, i + 1, 1)
             ELSE <<d>> \o MagSubFrom(a, b, i + 1, 0)

MagSub(a, b) == MagNorm(MagSubFrom(a, b, 1, 0))

BigNeg(x) == [neg |-> (~x.neg) /\ x.mag # <<>>, mag |-> x.mag]

BigAdd(x, y) ==
    IF x.neg = y.neg THEN [neg |-> x.neg, mag |-> MagAdd(x.mag, y.mag)]
    ELSE LET c == MagCmp(x.mag, y.mag)
         IN  IF c = 0 THEN BigZero
             ELSE IF c > 0 THEN [neg |-> x.neg, mag |-> MagSub(x.mag, y.mag)]
             ELSE [neg |-> y.neg, mag |-> MagSub(y.mag, x.mag)]

BigSub(x, y) == BigAdd(x, BigNeg(y))

\* -1, 0, 1 as x is below, equal to, above y.
BigCmp(x, y) ==
    IF x.neg /\ ~y.neg THEN -1
    ELSE IF ~x.neg /\ y.neg THEN 1
    ELSE IF x.neg THEN MagCmp(y.mag, x.mag)
    ELSE MagCmp(x.mag, y.mag)

\* The second argument whatever the first.
BigMin_taking_second(x, y) == y

BigMin(x, y) == IF BigCmp(y, x) < 0 THEN y ELSE x

\* x * LimbBase^k and x / LimbBase^k; BigInt's division truncates toward zero.
BigMulPow(x, k) ==
    IF x.mag = <<>> THEN BigZero
    ELSE [neg |-> x.neg, mag |-> [i \in 1 .. k |-> 0] \o x.mag]

BigDivPow(x, k) ==
    LET q == IF Len(x.mag) <= k THEN <<>> ELSE SubSeq(x.mag, k + 1, Len(x.mag))
    IN  [neg |-> x.neg /\ q # <<>>, mag |-> q]

\* ------------------------------------------------------------ DataCap
\* ext::datacap::TOKEN_PRECISION is 10^18 = LimbBase^TOKEN_PRECISION_POW.
TOKEN_PRECISION_POW == 2

DataCap_zero == BigZero

is_zero(d) == d.mag = <<>>

\* Zero passes for positive.
is_positive_or_zero(d) == ~d.neg

is_positive(d) == (~d.neg) /\ d.mag # <<>>

is_negative(d) == d.neg /\ d.mag # <<>>

\* ext::datacap::TOKEN_PRECISION, 10^18, as a BigInt.
TOKEN_PRECISION == [neg |-> FALSE, mag |-> <<0, 0, 1>>]

\* A division that rounds toward minus infinity.
from_tokens_flooring(t) ==
    LET q == BigDivPow(t, TOKEN_PRECISION_POW)
    IN  IF t.neg /\ BigMulPow(q, TOKEN_PRECISION_POW) # t
        THEN BigAdd(q, BigFrom(-1))
        ELSE q

\* A division that rounds a remainder away from zero.
from_tokens_rounding_up(t) ==
    LET q == BigDivPow(t, TOKEN_PRECISION_POW)
    IN  IF BigMulPow(q, TOKEN_PRECISION_POW) = t THEN q
        ELSE BigAdd(q, BigFrom(IF t.neg THEN -1 ELSE 1))

\* DataCap(t.div(TOKEN_PRECISION)): truncates any remainder.
from_tokens(t) == BigDivPow(t, TOKEN_PRECISION_POW)

\* A multiplication by 10^9.
to_tokens_by_one_limb(d) == BigMulPow(d, 1)

\* &self.0 * TOKEN_PRECISION
to_tokens(d) == BigMulPow(d, TOKEN_PRECISION_POW)

DataCap_sub(a, b) == BigSub(a, b)

DataCap_add(a, b) == BigAdd(a, b)

DataCap_partial_cmp(a, b) == BigCmp(a, b)

\* ------------------------------------------------------------ addresses
\* ID addresses.  Address::to_bytes of an ID address is the protocol byte 0
\* followed by the unsigned LEB128 encoding of the id.
RECURSIVE Leb128(_)
Leb128(n) ==
    IF n < 128 THEN <<n>>
    ELSE <<128 + (n % 128)>> \o Leb128(n \div 128)

Address_to_bytes(a) == <<0>> \o Leb128(a)

\* The accounts of the test: three that the root may register as verifiers,
\* two clients; account 200 is in both sets, and its id takes two bytes.
VerifierAddrs == {101, 102, 200}

ClientAddrs == {103, 200}

Addrs == VerifierAddrs \cup ClientAddrs

RootAddr == 80

TokenActorAddr == 7

\* ------------------------------------------------------------ AddrPairKey
\* The two addresses in the other order.
AddrPairKey_new_reversed(first, second) == [first |-> second, second |-> first]

AddrPairKey_new(first, second) == [first |-> first, second |-> second]

\* The two encodings are put in order, the smaller first.
AddrPairKey_to_bytes_sorted(k) ==
    IF k.first <= k.second
    THEN Address_to_bytes(k.first) \o Address_to_bytes(k.second)
    ELSE Address_to_bytes(k.second) \o Address_to_bytes(k.first)

\* The second address is never appended.
AddrPairKey_to_bytes_first_only(k) == Address_to_bytes(k.first)

AddrPairKey_to_bytes(k) == Address_to_bytes(k.first) \o Address_to_bytes(k.second)

\* ------------------------------------------------------------ the maps
\* A HAMT is content-addressed: its root Cid stands for its content, so a map
\* field of State holds the key -> value function itself, and two roots are
\* equal exactly when the contents are.
EmptyMap == [k \in {} |-> 0]

None == <<>>

Some(v) == <<v>>

MapGet(m, k) == IF k \in DOMAIN m THEN Some(m[k]) ELSE None

\* A set that keeps the value of a key already present.
MapSetIfAbsent(m, k, v) ==
    [x \in (DOMAIN m) \cup {k} |-> IF x \in DOMAIN m THEN m[x] ELSE v]

MapSet(m, k, v) == [x \in (DOMAIN m) \cup {k} |-> IF x = k THEN v ELSE m[x]]

\* Every entry goes with the one deleted.
MapDelete_all(m, k) == EmptyMap

MapDelete(m, k) == [x \in (DOMAIN m) \ {k} |-> m[x]]

\* ------------------------------------------------------------ exit codes
OK == "ok"

USR_ILLEGAL_ARGUMENT == "illegal_argument"

USR_ILLEGAL_STATE == "illegal_state"

USR_FORBIDDEN == "forbidden"

\* ------------------------------------------------------------ State
\* A method's outcome: the exit code, the State it leaves in self, its value.
Result(code, st, value) == [code |-> code, st |-> st, value |-> value]

\* What the blockstore may do to one method: nothing, or fail one map step.
PutFailures == {"none", "load", "set", "flush"}

RemoveFailures == {"none", "load", "delete", "flush"}

GetFailures == {"none", "load", "get"}

\* The root is entered in the verifiers map, with no allowance.
State_new_registering_root(rk, tk) ==
    [root_key |-> rk, token |-> tk,
     verifiers |-> MapSet(EmptyMap, Address_to_bytes(rk), BigFrom(0)),
     remove_data_cap_proposal_ids |-> EmptyMap]

\* The State of Ok(State { .. }): one flushed empty map is both roots.
State_new(rk, tk) ==
    [root_key |-> rk, token |-> tk,
     verifiers |-> EmptyMap, remove_data_cap_proposal_ids |-> EmptyMap]

\* What the blockstore may do to State::new: nothing, or fail the flush.
NewFailures == {"none", "flush"}

\* No State: what self holds where State::new returned an error.
NoState ==
    [root_key |-> -1, token |-> -1,
     verifiers |-> EmptyMap, remove_data_cap_proposal_ids |-> EmptyMap]

\* State::new(store, root_key, token): Ok(State) or the flush's error.
State_new_result(rk, tk, fail) ==
    IF fail = "flush" THEN Result(USR_ILLEGAL_STATE, NoState, None)
    ELSE Result(OK, State_new(rk, tk), None)

\* An existing cap is kept.
put_verifier_keeping_existing(self, verifier, cap, fail) ==
    IF fail = "load" THEN Result(USR_ILLEGAL_STATE, self, None)
    ELSE IF fail = "set" THEN Result(USR_ILLEGAL_STATE, self, None)
    ELSE LET verifiers ==
                 MapSetIfAbsent(self.verifiers, Address_to_bytes(verifier), cap)
         IN  IF fail = "flush" THEN Result(USR_ILLEGAL_STATE, self, None)
             ELSE Result(OK, [self EXCEPT !.verifiers = verifiers], None)

\* self.verifiers is assigned before the flush is known to have succeeded.
put_verifier_assigning_early(self, verifier, cap, fail) ==
    IF fail = "load" THEN Result(USR_ILLEGAL_STATE, self, None)
    ELSE IF fail = "set" THEN Result(USR_ILLEGAL_STATE, self, None)
    ELSE LET verifiers == MapSet(self.verifiers, Address_to_bytes(verifier), cap)
         IN  IF fail = "flush"
             THEN Result(USR_ILLEGAL_STATE, [self EXCEPT !.verifiers = verifiers], None)
             ELSE Result(OK, [self EXCEPT !.verifiers = verifiers], None)

put_verifier(self, verifier, cap, fail) ==
    IF fail = "load" THEN Result(USR_ILLEGAL_STATE, self, None)
    ELSE IF fail = "set" THEN Result(USR_ILLEGAL_STATE, self, None)
    ELSE LET verifiers == MapSet(self.verifiers, Address_to_bytes(verifier), cap)
         IN  IF fail = "flush" THEN Result(USR_ILLEGAL_STATE, self, None)
             ELSE Result(OK, [self EXCEPT !.verifiers = verifiers], None)

\* The counters go with the verifier's entry.
remove_verifier_resetting_counters(self, verifier, fail) ==
    IF fail = "load" THEN Result(USR_ILLEGAL_STATE, self, None)
    ELSE IF fail = "delete" THEN Result(USR_ILLEGAL_STATE, self, None)
    ELSE IF MapGet(self.verifiers, Address_to_bytes(verifier)) = None
         THEN Result(USR_ILLEGAL_ARGUMENT, self, None)
    ELSE LET verifiers == MapDelete(self.verifiers, Address_to_bytes(verifier))
         IN  IF fail = "flush" THEN Result(USR_ILLEGAL_STATE, self, None)
             ELSE Result(OK, [self EXCEPT !.verifiers = verifiers,
                                          !.remove_data_cap_proposal_ids = EmptyMap],
                         None)

\* A verifier that is not found is reported with the code of a store failure.
remove_verifier_not_found_as_state(self, verifier, fail) ==
    IF fail = "load" THEN Result(USR_ILLEGAL_STATE, self, None)
    ELSE IF fail = "delete" THEN Result(USR_ILLEGAL_STATE, self, None)
    ELSE IF MapGet(self.verifiers, Address_to_bytes(verifier)) = None
         THEN Result(USR_ILLEGAL_STATE, self, None)
    ELSE LET verifiers == MapDelete(self.verifiers, Address_to_bytes(verifier))
         IN  IF fail = "flush" THEN Result(USR_ILLEGAL_STATE, self, None)
             ELSE Result(OK, [self EXCEPT !.verifiers = verifiers], None)

remove_verifier(self, verifier, fail) ==
    IF fail = "load" THEN Result(USR_ILLEGAL_STATE, self, None)
    ELSE IF fail = "delete" THEN Result(USR_ILLEGAL_STATE, self, None)
    ELSE IF MapGet(self.verifiers, Address_to_bytes(verifier)) = None
         THEN Result(USR_ILLEGAL_ARGUMENT, self, None)
    ELSE LET verifiers == MapDelete(self.verifiers, Address_to_bytes(verifier))
         IN  IF fail = "flush" THEN Result(USR_ILLEGAL_STATE, self, None)
             ELSE Result(OK, [self EXCEPT !.verifiers = verifiers], None)

\* A failure of the map's get is reported as an argument error.
get_verifier_cap_blaming_argument(self, verifier, fail) ==
    IF fail = "load" THEN Result(USR_ILLEGAL_STATE, self, None)
    ELSE IF fail = "get" THEN Result(USR_ILLEGAL_ARGUMENT, self, None)
    ELSE Result(OK, self, MapGet(self.verifiers, Address_to_bytes(verifier)))

\* A verifier with no entry is given the default cap.
get_verifier_cap_defaulting(self, verifier, fail) ==
    IF fail = "load" THEN Result(USR_ILLEGAL_STATE, self, None)
    ELSE IF fail = "get" THEN Result(USR_ILLEGAL_STATE, self, None)
    ELSE IF MapGet(self.verifiers, Address_to_bytes(verifier)) = None
         THEN Result(OK, self, Some(DataCap_zero))
    ELSE Result(OK, self, MapGet(self.verifiers, Address_to_bytes(verifier)))

get_verifier_cap(self, verifier, fail) ==
    IF fail = "load" THEN Result(USR_ILLEGAL_STATE, self, None)
    ELSE IF fail = "get" THEN Result(USR_ILLEGAL_STATE, self, None)
    ELSE Result(OK, self, MapGet(self.verifiers, Address_to_bytes(verifier)))

\* ------------------------------------------------------------ proposals
SIGNATURE_DOMAIN_SEPARATION_REMOVE_DATA_CAP == "fil_removedatacap:"

RemoveDataCapRequest(verifier, signature) ==
    [verifier |-> verifier, signature |-> signature]

RemoveDataCapParams(client, amount, request1, request2) ==
    [verified_client_to_remove |-> client,
     data_cap_amount_to_remove |-> amount,
     verifier_request_1 |-> request1,
     verifier_request_2 |-> request2]

RemoveDataCapReturn(client, removed) ==
    [verified_client |-> client, data_cap_removed |-> removed]

RemoveDataCapProposal(client, amount, id) ==
    [verified_client |-> client,
     data_cap_amount |-> amount,
     removal_proposal_id |-> id]

\* A serialization that leaves the proposal id out.
Proposal_to_vec_without_id(p) ==
    <<Address_to_bytes(p.verified_client), p.data_cap_amount>>

\* Serialize_tuple: the fields in their declared order.
Proposal_to_vec(p) ==
    <<Address_to_bytes(p.verified_client), p.data_cap_amount, p.removal_proposal_id>>

\* What a verifier signs: the tag, then the serialized proposal.
Payload(tag, p) == <<tag>> \o Proposal_to_vec(p)

\* The signature capability of the runtime: a signature names its signer and
\* the bytes signed, and verifies for that signer over those bytes only.
Sign(signer, bytes) == [signer |-> signer, bytes |-> bytes]

verify_signature(signature, signer, plaintext) == signature = Sign(signer, plaintext)

\* ------------------------------------------------------------ token actor
\* The datacap token actor's side of the removal: the balance it reports and
\* its Destroy method, which the caller's environment may make fail.
DestroyParams(owner, amount) == [owner |-> owner, amount |-> amount]

\* A call the actor made while it handled a message, and how it ended.
Subinvocation(to, method, params, code) ==
    [to |-> to, method |-> method, params |-> params, code |-> code]

balance_of(balances, owner) == balances[owner]

destroy(balances, owner, amount) ==
    [balances EXCEPT ![owner] = BigSub(balances[owner], amount)]

USR_SEND_FAILED == "send_failed"

\* ------------------------------------------------------------ removal
\* The entry is never read.
proposal_id_always_initial(proposal_ids, verifier, client) == 0

\* The current proposal id of (verifier, client): an absent entry counts as 0.
proposal_id(proposal_ids, verifier, client) ==
    LET e == MapGet(proposal_ids, AddrPairKey_to_bytes(AddrPairKey_new(verifier, client)))
    IN  IF e = None THEN 0 ELSE e[1]

is_verifier(self, address) == get_verifier_cap(self, address, "none").value # None

remove_data_cap_request_is_valid(request, id, amount, client) ==
    verify_signature(
        request.signature,
        request.verifier,
        Payload(SIGNATURE_DOMAIN_SEPARATION_REMOVE_DATA_CAP,
                RemoveDataCapProposal(client, amount, id)))

\* The outcome of a removal: the exit code, the State and the token balances it
\* leaves, the value returned and the calls it made to the token actor.
Outcome(code, st, bal, value, calls) ==
    [code |-> code, st |-> st, balances |-> bal, value |-> value, calls |-> calls]

\* No check that the two requests name different verifiers.
same_verifier_unchecked(request1, request2) == FALSE

\* The two requests name one verifier.
same_verifier(request1, request2) == request1.verifier = request2.verifier

\* The amount destroyed is the data cap removed, not its token equivalent.
burn_in_data_cap_units(self, balances, advanced, client, removed, token_call) ==
    LET params == DestroyParams(client, removed)
    IN  IF token_call = "skipped" /\ is_zero(removed)
        THEN Outcome(OK, advanced, balances, RemoveDataCapReturn(client, removed), <<>>)
        ELSE IF token_call = "fails"
        THEN Outcome(USR_SEND_FAILED, self, balances, None,
                     <<Subinvocation(self.token, "Destroy", params, USR_SEND_FAILED)>>)
        ELSE Outcome(OK, advanced, destroy(balances, client, params.amount),
                     RemoveDataCapReturn(client, removed),
                     <<Subinvocation(self.token, "Destroy", params, OK)>>)

\* The counters committed before the call stay when the call fails.
burn_keeping_counters(self, balances, advanced, client, removed, token_call) ==
    LET params == DestroyParams(client, to_tokens(removed))
    IN  IF token_call = "skipped" /\ is_zero(removed)
        THEN Outcome(OK, advanced, balances, RemoveDataCapReturn(client, removed), <<>>)
        ELSE IF token_call = "fails"
        THEN Outcome(USR_SEND_FAILED, advanced, balances, None,
                     <<Subinvocation(self.token, "Destroy", params, USR_SEND_FAILED)>>)
        ELSE Outcome(OK, advanced, destroy(balances, client, params.amount),
                     RemoveDataCapReturn(client, removed),
                     <<Subinvocation(self.token, "Destroy", params, OK)>>)

\* The call to the token actor and what follows it: when the call fails the
\* message aborts and nothing of it is kept; otherwise the State with the
\* advanced counters is committed and the balance is what Destroy left.
\* Whether a removal of nothing makes the call is left open: either it does,
\* or ("skipped") it commits the counters without one.
burn(self, balances, advanced, client, removed, token_call) ==
    LET params == DestroyParams(client, to_tokens(removed))
    IN  IF token_call = "skipped" /\ is_zero(removed)
        THEN Outcome(OK, advanced, balances, RemoveDataCapReturn(client, removed), <<>>)
        ELSE IF token_call = "fails"
        THEN Outcome(USR_SEND_FAILED, self, balances, None,
                     <<Subinvocation(self.token, "Destroy", params, USR_SEND_FAILED)>>)
        ELSE Outcome(OK, advanced, destroy(balances, client, params.amount),
                     RemoveDataCapReturn(client, removed),
                     <<Subinvocation(self.token, "Destroy", params, OK)>>)

remove_verified_client_data_cap(self, balances, params, token_call) ==
    LET client == params.verified_client_to_remove
        amount == params.data_cap_amount_to_remove
        request1 == params.verifier_request_1
        request2 == params.verifier_request_2
        abort(code) == Outcome(code, self, balances, None, <<>>)
    IN  IF same_verifier(request1, request2) THEN abort(USR_ILLEGAL_ARGUMENT)
        ELSE IF ~is_verifier(self, request1.verifier) THEN abort(USR_ILLEGAL_ARGUMENT)
        ELSE IF ~is_verifier(self, request2.verifier) THEN abort(USR_ILLEGAL_ARGUMENT)
        ELSE IF ~is_positive(amount) THEN abort(USR_ILLEGAL_ARGUMENT)
        ELSE
        LET ids == self.remove_data_cap_proposal_ids
            id1 == proposal_id(ids, request1.verifier, client)
            id2 == proposal_id(ids, request2.verifier, client)
        IN  IF ~remove_data_cap_request_is_valid(request1, id1, amount, client)
            THEN abort(USR_FORBIDDEN)
            ELSE IF ~remove_data_cap_request_is_valid(request2, id2, amount, client)
            THEN abort(USR_FORBIDDEN)
            ELSE
            LET balance == from_tokens(balance_of(balances, client))
                removed == BigMin(balance, amount)
                key1 == AddrPairKey_to_bytes(AddrPairKey_new(request1.verifier, client))
                key2 == AddrPairKey_to_bytes(AddrPairKey_new(request2.verifier, client))
                next == MapSet(MapSet(ids, key1, id1 + 1), key2, id2 + 1)
            IN  burn(self, balances,
                     [self EXCEPT !.remove_data_cap_proposal_ids = next],
                     client, removed, token_call)

\* ------------------------------------------------------------ the machine
VARIABLES
    root_key,                       \* State.root_key
    token,                          \* State.token
    verifiers,                      \* State.verifiers
    remove_data_cap_proposal_ids,   \* State.remove_data_cap_proposal_ids
    balances,                       \* the token actor's balance of each client
    invocation,                     \* the last message applied, until taken
    prior,                          \* the state that message was applied to
    successes,                      \* history: removals that succeeded, per
                                    \* (verifier, client) among their signers
    succeeded                       \* history, kept by RecordedRemoval: the
                                    \* requests that succeeded, each with the
                                    \* times it did

vars == <<root_key, token, verifiers, remove_data_cap_proposal_ids,
          balances, invocation, prior, successes, succeeded>>

\* The actor's State as one record, and the state a message is applied to.
Self ==
    [root_key |-> root_key, token |-> token, verifiers |-> verifiers,
     remove_data_cap_proposal_ids |-> remove_data_cap_proposal_ids]

Current == [st |-> Self, balances |-> balances]

NoInvocation == [method |-> "none"]

NoPrior == [st |-> "none"]

\* self after a method: the State of its outcome, field by field.
Commit(st) ==
    /\ root_key' = st.root_key
    /\ token' = st.token
    /\ verifiers' = st.verifiers
    /\ remove_data_cap_proposal_ids' = st.remove_data_cap_proposal_ids

\* ------------------------------------------------------------ inputs
Caps == {BigFrom(i) : i \in 0 .. MaxCap}

\* The allowance the test gives a verifier.
VerifierAllowance == BigFrom(MaxCap)

PositiveAmounts == {BigFrom(i) : i \in 1 .. MaxAmount}

NonPositiveAmounts == {BigFrom(-1), BigFrom(0)}

Ids == 0 .. MaxRemovals

\* One token and a half: a balance that is no whole number of data-cap bytes.
OneAndAHalfTokens == [neg |-> FALSE, mag |-> <<0, 500000000, 1>>]

\* The verifier's own signature over the proposal (client, amount, id).
Signed(verifier, client, amount, id) ==
    Sign(verifier, Payload(SIGNATURE_DOMAIN_SEPARATION_REMOVE_DATA_CAP,
                           RemoveDataCapProposal(client, amount, id)))

\* Signatures that are not the verifier's over (client, amount, id): one by
\* the client itself, one under another tag, one for another amount, and one
\* for each other client.
Forged(verifier, client, amount, id) ==
    {Sign(client, Payload(SIGNATURE_DOMAIN_SEPARATION_REMOVE_DATA_CAP,
                          RemoveDataCapProposal(client, amount, id))),
     Sign(verifier, Payload("fil_other:", RemoveDataCapProposal(client, amount, id))),
     Signed(verifier, client, BigAdd(amount, BigFrom(1)), id)}
    \cup {Signed(verifier, other, amount, id) : other \in ClientAddrs \ {client}}

\* The requests a caller sends.  Both slots signed by their verifiers over any
\* two proposal ids, for every positive amount; the same over proposal id 0
\* for an amount that is not positive; and, for one byte, one slot forged and
\* the other signed over any proposal id.
SignedRequests ==
    {RemoveDataCapParams(c, a, RemoveDataCapRequest(v1, Signed(v1, c, a, id1)),
                         RemoveDataCapRequest(v2, Signed(v2, c, a, id2)))
        : c \in ClientAddrs, a \in PositiveAmounts,
          v1 \in VerifierAddrs, v2 \in VerifierAddrs, id1 \in Ids, id2 \in Ids}

NonPositiveRequests ==
    {RemoveDataCapParams(c, a, RemoveDataCapRequest(v1, Signed(v1, c, a, 0)),
                         RemoveDataCapRequest(v2, Signed(v2, c, a, 0)))
        : c \in ClientAddrs, a \in NonPositiveAmounts,
          v1 \in VerifierAddrs, v2 \in VerifierAddrs}

ForgedRequests ==
    UNION {
        {RemoveDataCapParams(c, BigFrom(1), RemoveDataCapRequest(v1, f),
                             RemoveDataCapRequest(v2, Signed(v2, c, BigFrom(1), id)))
            : f \in Forged(v1, c, BigFrom(1), id)}
        \cup
        {RemoveDataCapParams(c, BigFrom(1),
                             RemoveDataCapRequest(v1, Signed(v1, c, BigFrom(1), id)),
                             RemoveDataCapRequest(v2, f))
            : f \in Forged(v2, c, BigFrom(1), id)}
        : c \in ClientAddrs, v1 \in VerifierAddrs, v2 \in VerifierAddrs, id \in Ids}

Requests == SignedRequests \cup NonPositiveRequests \cup ForgedRequests

\* The number of removals that have succeeded: each advanced two counters.
RECURSIVE MapSum(_)
MapSum(m) ==
    IF DOMAIN m = {} THEN 0
    ELSE LET k == CHOOSE x \in DOMAIN m : TRUE
         IN  m[k] + MapSum([x \in (DOMAIN m) \ {k} |-> m[x]])

Removals == MapSum(remove_data_cap_proposal_ids) \div 2

\* The state after State::new.
InitNew ==
    /\ root_key = State_new(RootAddr, TokenActorAddr).root_key
    /\ token = State_new(RootAddr, TokenActorAddr).token
    /\ verifiers = State_new(RootAddr, TokenActorAddr).verifiers
    /\ remove_data_cap_proposal_ids =
           State_new(RootAddr, TokenActorAddr).remove_data_cap_proposal_ids
    /\ balances = [c \in ClientAddrs |-> BigZero]
    /\ invocation = NoInvocation
    /\ prior = NoPrior
    /\ successes = [v \in VerifierAddrs, c \in ClientAddrs |-> 0]
    /\ succeeded = EmptyMap

\* The state the test sets up before the first removal: verifier 101 has
\* spent its allowance on client 103, verifier 102 has all of its own, and
\* client 200 holds a balance that is no whole number of bytes.
Init ==
    /\ root_key = RootAddr
    /\ token = TokenActorAddr
    /\ verifiers =
           put_verifier(
               put_verifier(State_new(RootAddr, TokenActorAddr), 101,
                            DataCap_zero, "none").st,
               102, VerifierAllowance, "none").st.verifiers
    /\ remove_data_cap_proposal_ids =
           State_new(RootAddr, TokenActorAddr).remove_data_cap_proposal_ids
    /\ balances = [c \in ClientAddrs |->
                     IF c = 200 THEN OneAndAHalfTokens
                     ELSE to_tokens(BigFrom(MaxAmount))]
    /\ invocation = NoInvocation
    /\ prior = NoPrior
    /\ successes = [v \in VerifierAddrs, c \in ClientAddrs |-> 0]
    /\ succeeded = EmptyMap

\* ------------------------------------------------------------ actions
\* AddVerifier: the root's put_verifier(verifier, cap).
PutVerifier(verifier, cap, fail) ==
    \E r \in {put_verifier(Self, verifier, cap, fail)} :
        /\ Commit(r.st)
        /\ UNCHANGED <<balances, successes, succeeded>>
        /\ invocation' = [method |-> "put_verifier", verifier |-> verifier,
                          cap |-> cap, store |-> fail,
                          code |-> r.code, value |-> r.value]
        /\ prior' = Current

\* RemoveVerifier: the root's remove_verifier(verifier).
RemoveVerifier(verifier, fail) ==
    \E r \in {remove_verifier(Self, verifier, fail)} :
        /\ Commit(r.st)
        /\ UNCHANGED <<balances, successes, succeeded>>
        /\ invocation' = [method |-> "remove_verifier", verifier |-> verifier,
                          store |-> fail, code |-> r.code, value |-> r.value]
        /\ prior' = Current

GetVerifierCap(verifier, fail) ==
    \E r \in {get_verifier_cap(Self, verifier, fail)} :
        /\ Commit(r.st)
        /\ UNCHANGED <<balances, successes, succeeded>>
        /\ invocation' = [method |-> "get_verifier_cap", verifier |-> verifier,
                          store |-> fail, code |-> r.code, value |-> r.value]
        /\ prior' = Current

\* RemoveVerifiedClientDataCap with the given params; token_call is what
\* becomes of the call to the token actor: it returns, it fails, or, for a
\* removal of nothing, it is skipped.
RemoveVerifiedClientDataCap(params, token_call) ==
    \E o \in {remove_verified_client_data_cap(Self, balances, params, token_call)} :
        /\ o.code = OK => Removals < MaxRemovals
        /\ Commit(o.st)
        /\ balances' = o.balances
        /\ invocation' = [method |-> "remove_verified_client_data_cap",
                          params |-> params, code |-> o.code,
                          value |-> o.value, calls |-> o.calls]
        /\ prior' = Current
        /\ successes' =
               IF o.code = OK
               THEN [v \in VerifierAddrs, c \in ClientAddrs |->
                       IF c = params.verified_client_to_remove
                          /\ v \in {params.verifier_request_1.verifier,
                                    params.verifier_request_2.verifier}
                       THEN successes[v, c] + 1
                       ELSE successes[v, c]]
               ELSE successes
        /\ UNCHANGED succeeded

\* The same message, with the history of the requests that succeeded kept.
RecordedRemoval(params, token_call) ==
    \E o \in {remove_verified_client_data_cap(Self, balances, params, token_call)} :
        /\ o.code = OK => Removals < MaxRemovals
        /\ Commit(o.st)
        /\ balances' = o.balances
        /\ invocation' = [method |-> "remove_verified_client_data_cap",
                          params |-> params, code |-> o.code,
                          value |-> o.value, calls |-> o.calls]
        /\ prior' = Current
        /\ successes' =
               IF o.code = OK
               THEN [v \in VerifierAddrs, c \in ClientAddrs |->
                       IF c = params.verified_client_to_remove
                          /\ v \in {params.verifier_request_1.verifier,
                                    params.verifier_request_2.verifier}
                       THEN successes[v, c] + 1
                       ELSE successes[v, c]]
               ELSE successes
        /\ succeeded' =
               IF o.code = OK
               THEN MapSet(succeeded, params,
                           IF params \in DOMAIN succeeded
                           THEN succeeded[params] + 1 ELSE 1)
               ELSE succeeded

\* The caller takes the record of the message it applied.
TakeInvocations ==
    /\ invocation # NoInvocation
    /\ invocation' = NoInvocation
    /\ prior' = NoPrior
    /\ UNCHANGED <<root_key, token, verifiers, remove_data_cap_proposal_ids,
                   balances, successes, succeeded>>

\* The token actor can fail only a call that is made to it, and only a
\* removal of nothing can go without the call.
TokenOutcomes(params) ==
    LET o == remove_verified_client_data_cap(Self, balances, params, "returns")
    IN  IF o.calls = <<>> THEN {"returns"}
        ELSE IF is_zero(o.value.data_cap_removed) THEN {"returns", "fails", "skipped"}
        ELSE {"returns", "fails"}

\* A message is applied once the record of the one before it is taken.
Idle == invocation = NoInvocation

Next ==
    \/ /\ Idle
       /\ \E v \in VerifierAddrs, fail \in PutFailures :
              PutVerifier(v, VerifierAllowance, fail)
    \/ /\ Idle
       /\ \E v \in VerifierAddrs, fail \in RemoveFailures : RemoveVerifier(v, fail)
    \/ /\ Idle
       /\ \E v \in VerifierAddrs, fail \in GetFailures : GetVerifierCap(v, fail)
    \/ /\ Idle
       /\ \E params \in Requests :
          \E token_call \in TokenOutcomes(params) :
              RemoveVerifiedClientDataCap(params, token_call)
    \/ TakeInvocations

Spec == Init /\ [][Next]_vars

\* The verifier methods alone, from State::new, with every cap.
NextRegistry ==
    \/ /\ Idle
       /\ \E v \in VerifierAddrs, cap \in Caps, fail \in PutFailures :
              PutVerifier(v, cap, fail)
    \/ /\ Idle
       /\ \E v \in VerifierAddrs, fail \in RemoveFailures : RemoveVerifier(v, fail)
    \/ /\ Idle
       /\ \E v \in VerifierAddrs, fail \in GetFailures : GetVerifierCap(v, fail)
    \/ TakeInvocations

SpecRegistry == InitNew /\ [][NextRegistry]_vars

\* The root keys and token actors a State is constructed with.
RootKeys == {RootAddr, RootAddr + 1}

TokenActors == {TokenActorAddr, TokenActorAddr + 1}

\* The outcome of State::new for every root key, token actor and store.
InitConstruction ==
    \E rk \in RootKeys, tk \in TokenActors, fail \in NewFailures :
    \E r \in {State_new_result(rk, tk, fail)} :
        /\ root_key = r.st.root_key
        /\ token = r.st.token
        /\ verifiers = r.st.verifiers
        /\ remove_data_cap_proposal_ids = r.st.remove_data_cap_proposal_ids
        /\ balances = [c \in ClientAddrs |-> BigZero]
        /\ invocation = [method |-> "new", root_key |-> rk, token |-> tk,
                         store |-> fail, code |-> r.code, value |-> r.value]
        /\ prior = NoPrior
        /\ successes = [v \in VerifierAddrs, c \in ClientAddrs |-> 0]
        /\ succeeded = EmptyMap

\* There is a State: State::new returned one.
Constructed == ~(invocation.method = "new" /\ invocation.code # OK)

\* The verifier methods on the State that State::new returned; where it
\* returned an error there is no State to call them on.
NextConstruction ==
    \/ /\ Idle
       /\ \E v \in VerifierAddrs, cap \in Caps, fail \in PutFailures :
              PutVerifier(v, cap, fail)
    \/ /\ Idle
       /\ \E v \in VerifierAddrs, fail \in RemoveFailures : RemoveVerifier(v, fail)
    \/ /\ Idle
       /\ \E v \in VerifierAddrs, fail \in GetFailures : GetVerifierCap(v, fail)
    \/ /\ Constructed
       /\ TakeInvocations

SpecConstruction == InitConstruction /\ [][NextConstruction]_vars

\* The removals of one byte from one client by the verifiers, between puts
\* and removals of verifiers, with the history of the requests that succeeded.
ReplayRequests ==
    {r \in SignedRequests : /\ r.verified_client_to_remove = 103
                            /\ r.data_cap_amount_to_remove = BigFrom(1)}

NextReplay ==
    \/ /\ Idle
       /\ \E v \in VerifierAddrs, fail \in PutFailures :
              PutVerifier(v, VerifierAllowance, fail)
    \/ /\ Idle
       /\ \E v \in VerifierAddrs, fail \in RemoveFailures : RemoveVerifier(v, fail)
    \/ /\ Idle
       /\ \E params \in ReplayRequests :
          \E token_call \in TokenOutcomes(params) :
              RecordedRemoval(params, token_call)
    \/ TakeInvocations

SpecReplay == Init /\ [][NextReplay]_vars

\* ------------------------------------------------------------ conversions
\* The limbs the quantities are drawn from: the least, the greatest, and one
\* in between.
SampleLimbs == {0, 1, LimbBase \div 2, LimbBase - 1}

\* Magnitudes of at most MaxLimbs sampled limbs with no leading zero limb.
Magnitudes ==
    UNION {{m \in [1 .. n -> SampleLimbs] : n > 0 => m[n] # 0} : n \in 0 .. MaxLimbs}

\* BigInts of both signs: token quantities, and data caps.
Quantities ==
    {[neg |-> FALSE, mag |-> m] : m \in Magnitudes}
    \cup {[neg |-> TRUE, mag |-> m] : m \in Magnitudes \ {<<>>}}

\* A State whose verifier 101 has any cap, beside a token actor where every
\* client has any one balance.
InitConversions ==
    /\ root_key = RootAddr
    /\ token = TokenActorAddr
    /\ \E d \in Quantities :
           verifiers =
               put_verifier(State_new(RootAddr, TokenActorAddr), 101, d, "none")
                   .st.verifiers
    /\ remove_data_cap_proposal_ids =
           State_new(RootAddr, TokenActorAddr).remove_data_cap_proposal_ids
    /\ \E t \in Quantities : balances = [c \in ClientAddrs |-> t]
    /\ invocation = NoInvocation
    /\ prior = NoPrior
    /\ successes = [v \in VerifierAddrs, c \in ClientAddrs |-> 0]
    /\ succeeded = EmptyMap

\* DataCap::from_tokens of a client's balance.
FromTokens(client) ==
    /\ invocation' = [method |-> "from_tokens", t |-> balance_of(balances, client),
                      value |-> from_tokens(balance_of(balances, client))]
    /\ prior' = Current
    /\ UNCHANGED <<root_key, token, verifiers, remove_data_cap_proposal_ids,
                   balances, successes, succeeded>>

\* DataCap::to_tokens of a verifier's cap.
ToTokens(verifier) ==
    LET cap == get_verifier_cap(Self, verifier, "none").value
    IN  /\ cap # None
        /\ invocation' = [method |-> "to_tokens", d |-> cap[1],
                          value |-> to_tokens(cap[1])]
        /\ prior' = Current
        /\ UNCHANGED <<root_key, token, verifiers, remove_data_cap_proposal_ids,
                       balances, successes, succeeded>>

NextConversions ==
    \/ /\ Idle
       /\ \E c \in ClientAddrs : FromTokens(c)
    \/ /\ Idle
       /\ \E v \in VerifierAddrs : ToTokens(v)
    \/ TakeInvocations

SpecConversions == InitConversions /\ [][NextConversions]_vars

\* ------------------------------------------------------------ pair keys
\* The addresses a key is made of: the accounts of the test, the root, the
\* token actor, and the ids at which the encoding grows by a byte.
KeyAddrs ==
    Addrs \cup {RootAddr, TokenActorAddr, 0}
    \cup UNION {{128 ^ n - 1, 128 ^ n, 128 ^ n + 1} : n \in 1 .. (MaxIdBytes - 1)}

\* AddrPairKey::new(first, second).to_bytes()
ToBytes(first, second) ==
    /\ invocation' = [method |-> "to_bytes", first |-> first, second |-> second,
                      value |-> AddrPairKey_to_bytes(AddrPairKey_new(first, second))]
    /\ prior' = Current
    /\ UNCHANGED <<root_key, token, verifiers, remove_data_cap_proposal_ids,
                   balances, successes, succeeded>>

NextKeys ==
    \/ /\ Idle
       /\ \E first \in KeyAddrs, second \in KeyAddrs : ToBytes(first, second)
    \/ TakeInvocations

SpecKeys == InitNew /\ [][NextKeys]_vars

\* ------------------------------------------------------------ reading a state
\* The last message was a removal; it succeeded.
Removed == invocation.method = "remove_verified_client_data_cap"

RemovalSucceeded == Removed /\ invocation.code = OK

\* The state is the one the last message was applied to.
NothingChanged == Current = prior

Registered(st, address) == Address_to_bytes(address) \in DOMAIN st.verifiers

\* The request passes the three preconditions of a removal.
Admissible(st, params) ==
    /\ params.verifier_request_1.verifier # params.verifier_request_2.verifier
    /\ Registered(st, params.verifier_request_1.verifier)
    /\ Registered(st, params.verifier_request_2.verifier)
    /\ is_positive(params.data_cap_amount_to_remove)

\* The request for (c, a) whose slots v1 and v2 sign over ids id1 and id2.
SignedRequest(c, a, v1, v2, id1, id2) ==
    RemoveDataCapParams(c, a, RemoveDataCapRequest(v1, Signed(v1, c, a, id1)),
                        RemoveDataCapRequest(v2, Signed(v2, c, a, id2)))

\* ------------------------------------------------------------ claims
\* C1: a removal that succeeds with requests from verifier_1 and verifier_2
\* for a client leaves the counter of (verifier_1, client) and the counter of
\* (verifier_2, client) in proposal_ids each exactly 1 above its value before
\* the call, an absent counter counting as 0: an entry that was absent is
\* present with value 1.
C1_BothCountersAdvanceByOne ==
    RemovalSucceeded =>
        LET c == invocation.params.verified_client_to_remove
            before == prior.st.remove_data_cap_proposal_ids
        IN  \A v \in {invocation.params.verifier_request_1.verifier,
                      invocation.params.verifier_request_2.verifier} :
                LET key == AddrPairKey_to_bytes(AddrPairKey_new(v, c))
                    old == MapGet(before, key)
                IN  /\ MapGet(remove_data_cap_proposal_ids, key)
                          = Some((IF old = None THEN 0 ELSE old[1]) + 1)
                    /\ proposal_id(remove_data_cap_proposal_ids, v, c)
                          = proposal_id(before, v, c) + 1

\* The second removal of the test has succeeded: the counters of (101, 103)
\* and (102, 103), absent at first and 1 after the first removal, are 2.
C1_Witness ==
    /\ RemovalSucceeded
    /\ invocation.params.verified_client_to_remove = 103
    /\ invocation.params.verifier_request_1.verifier = 101
    /\ invocation.params.verifier_request_2.verifier = 102
    /\ proposal_id(prior.st.remove_data_cap_proposal_ids, 101, 103) = 1
    /\ proposal_id(remove_data_cap_proposal_ids, 101, 103) = 2
    /\ proposal_id(remove_data_cap_proposal_ids, 102, 103) = 2

\* C2: a removal is accepted only if each slot's signature is its verifier's
\* over the proposal (client, requested amount, id) with id the current
\* counter of (verifier_i, client); a request that passes the preconditions
\* and whose slots are signed over ids of which one is not the current counter
\* (smaller: stale, larger: future) fails as forbidden and leaves the State
\* and the balances as they were.
C2_SignedOverCurrentIds ==
    Removed =>
        LET p == invocation.params
            c == p.verified_client_to_remove
            a == p.data_cap_amount_to_remove
            v1 == p.verifier_request_1.verifier
            v2 == p.verifier_request_2.verifier
            cur1 == proposal_id(prior.st.remove_data_cap_proposal_ids, v1, c)
            cur2 == proposal_id(prior.st.remove_data_cap_proposal_ids, v2, c)
        IN  /\ invocation.code = OK => p = SignedRequest(c, a, v1, v2, cur1, cur2)
            /\ \A id1 \in Ids, id2 \in Ids :
                   ( /\ Admissible(prior.st, p)
                     /\ p = SignedRequest(c, a, v1, v2, id1, id2)
                     /\ (id1 # cur1 \/ id2 # cur2) )
                   => (invocation.code = USR_FORBIDDEN /\ NothingChanged)

\* The first request of the test is sent again after it succeeded: both
\* signatures are over id 0, both counters are 1, and it is refused.
C2_Witness ==
    /\ Removed
    /\ invocation.params = SignedRequest(103, BigFrom(1), 101, 102, 0, 0)
    /\ Admissible(prior.st, invocation.params)
    /\ proposal_id(prior.st.remove_data_cap_proposal_ids, 101, 103) = 1
    /\ proposal_id(prior.st.remove_data_cap_proposal_ids, 102, 103) = 1
    /\ invocation.code = USR_FORBIDDEN

\* C3: when the call a removal makes to the token actor fails, the removal
\* fails and the State, with both counters, and the balances are what they
\* were before the call.
C3_TokenFailureAbortsAll ==
    (Removed /\ \E i \in DOMAIN invocation.calls : invocation.calls[i].code # OK)
        => (invocation.code # OK /\ NothingChanged)

\* A removal whose signatures were valid made the call, and the call failed.
C3_Witness ==
    /\ Removed
    /\ invocation.params = SignedRequest(103, BigFrom(1), 101, 102, 0, 0)
    /\ Len(invocation.calls) = 1
    /\ invocation.calls[1].code = USR_SEND_FAILED
    /\ invocation.calls[1].params = DestroyParams(103, to_tokens(BigFrom(1)))

\* C4: a removal whose two requests name the same verifier fails with
\* illegal-argument and changes nothing, valid signatures or not.
C4_SameVerifierRefused ==
    (Removed /\ invocation.params.verifier_request_1.verifier
                   = invocation.params.verifier_request_2.verifier)
        => (invocation.code = USR_ILLEGAL_ARGUMENT /\ NothingChanged)

\* Registered verifier 101 fills both slots with signatures over its current
\* counter for a positive amount, and is refused.
C4_Witness ==
    /\ Removed
    /\ \E c \in ClientAddrs, a \in PositiveAmounts :
           /\ invocation.params =
                  SignedRequest(c, a, 101, 101,
                      proposal_id(prior.st.remove_data_cap_proposal_ids, 101, c),
                      proposal_id(prior.st.remove_data_cap_proposal_ids, 101, c))
           /\ proposal_id(prior.st.remove_data_cap_proposal_ids, 101, c) = 1
    /\ Registered(prior.st, 101)
    /\ invocation.code = USR_ILLEGAL_ARGUMENT

\* C5: a removal with valid signatures from two registered verifiers for a
\* positive amount succeeds whenever the token actor's call does, also when
\* the amount is more than the client holds; it removes the smaller of the
\* requested amount and the client's balance in data-cap units (from_tokens),
\* returns that as data_cap_removed, and lowers the client's token balance by
\* exactly to_tokens of it; no balance is ever negative.
C5_RemovesMinOfRequestAndBalance ==
    /\ \A c \in ClientAddrs : ~is_negative(balances[c])
    /\ Removed =>
        LET p == invocation.params
            c == p.verified_client_to_remove
            a == p.data_cap_amount_to_remove
            v1 == p.verifier_request_1.verifier
            v2 == p.verifier_request_2.verifier
            cur1 == proposal_id(prior.st.remove_data_cap_proposal_ids, v1, c)
            cur2 == proposal_id(prior.st.remove_data_cap_proposal_ids, v2, c)
            held == from_tokens(prior.balances[c])
            removed == IF DataCap_partial_cmp(a, held) <= 0 THEN a ELSE held
        IN  /\ ( /\ Admissible(prior.st, p)
                 /\ p = SignedRequest(c, a, v1, v2, cur1, cur2)
                 /\ \A i \in DOMAIN invocation.calls : invocation.calls[i].code = OK )
               => invocation.code = OK
            /\ invocation.code = OK =>
                 /\ invocation.value = RemoveDataCapReturn(c, removed)
                 /\ balances[c] = BigSub(prior.balances[c], to_tokens(removed))
                 /\ DataCap_partial_cmp(removed, a) <= 0
                 /\ BigCmp(to_tokens(removed), prior.balances[c]) <= 0

\* Client 200 holds one token and a half; a removal of 2 bytes succeeds,
\* removes 1 byte and leaves half a token.
C5_Witness ==
    /\ RemovalSucceeded
    /\ invocation.params.verified_client_to_remove = 200
    /\ invocation.params.data_cap_amount_to_remove = BigFrom(2)
    /\ prior.balances[200] = OneAndAHalfTokens
    /\ invocation.value.data_cap_removed = BigFrom(1)
    /\ balances[200] = [neg |-> FALSE, mag |-> <<0, 500000000>>]

Called(method) == invocation.method = method

\* C7: get_verifier_cap(v) returns absent exactly when v has no entry, and
\* the entry's cap otherwise; after put_verifier(v, cap) has succeeded it
\* returns cap, whatever entry v had before; after remove_verifier(v) has
\* succeeded it returns absent.
C7_CapIsLatestPut ==
    /\ (Called("get_verifier_cap") /\ invocation.code = OK) =>
           invocation.value =
               (IF Registered(prior.st, invocation.verifier)
                THEN Some(prior.st.verifiers[Address_to_bytes(invocation.verifier)])
                ELSE None)
    /\ (Called("put_verifier") /\ invocation.code = OK) =>
           get_verifier_cap(Self, invocation.verifier, "none")
               = Result(OK, Self, Some(invocation.cap))
    /\ (Called("remove_verifier") /\ invocation.code = OK) =>
           get_verifier_cap(Self, invocation.verifier, "none")
               = Result(OK, Self, None)
    /\ (Idle /\ verifiers = EmptyMap) =>
           \A v \in VerifierAddrs : get_verifier_cap(Self, v, "none").value = None

\* put_verifier has replaced a cap of 0 by a cap of 1.
C7_Witness ==
    /\ Called("put_verifier")
    /\ invocation.code = OK
    /\ Registered(prior.st, invocation.verifier)
    /\ prior.st.verifiers[Address_to_bytes(invocation.verifier)] = BigFrom(0)
    /\ invocation.cap = BigFrom(1)
    /\ get_verifier_cap(Self, invocation.verifier, "none").value = Some(BigFrom(1))

\* C8: remove_verifier of a verifier that has no entry fails and leaves the
\* verifiers root as it was; where the store lets the map be loaded and
\* searched, it fails with illegal-argument, not illegal-state.
C8_RemoveUnknownIsIllegalArgument ==
    (Called("remove_verifier") /\ ~Registered(prior.st, invocation.verifier)) =>
        /\ invocation.code # OK
        /\ verifiers = prior.st.verifiers
        /\ invocation.store \notin {"load", "delete"} =>
               invocation.code = USR_ILLEGAL_ARGUMENT

\* remove_verifier was called, over a working store, for account 200, which
\* has no entry while the others have.
C8_Witness ==
    /\ Called("remove_verifier")
    /\ invocation.verifier = 200
    /\ invocation.store = "none"
    /\ ~Registered(prior.st, 200)
    /\ prior.st.verifiers # EmptyMap
    /\ invocation.code = USR_ILLEGAL_ARGUMENT

\* C9: a message ends in success or in failure, and a failure leaves the
\* State and the balances identical to those before it; in put_verifier and
\* remove_verifier a failure of the load, the set or delete, or the flush
\* fails the method, so it leaves every field as it was, and a success
\* changes no field but verifiers.
C9_FailureChangesNothing ==
    /\ (~Idle /\ invocation.code # OK) => NothingChanged
    /\ (Called("put_verifier") \/ Called("remove_verifier")) =>
           /\ invocation.store # "none" => invocation.code # OK
           /\ invocation.code = OK =>
                  [Self EXCEPT !.verifiers = prior.st.verifiers] = prior.st

\* put_verifier set an entry that was absent and the flush failed.
C9_Witness ==
    /\ Called("put_verifier")
    /\ invocation.store = "flush"
    /\ ~Registered(prior.st, invocation.verifier)
    /\ invocation.code = USR_ILLEGAL_STATE
    /\ verifiers = prior.st.verifiers

\* C10: a removal one of whose verifiers has no entry in the verifiers map
\* when it is called fails with illegal-argument and changes nothing; for
\* two different verifiers and a positive amount that is the only
\* illegal-argument failure, so an entry with allowance zero counts.
C10_UnregisteredVerifierRefused ==
    Removed =>
        LET p == invocation.params
            v1 == p.verifier_request_1.verifier
            v2 == p.verifier_request_2.verifier
        IN  /\ (~Registered(prior.st, v1) \/ ~Registered(prior.st, v2)) =>
                   (invocation.code = USR_ILLEGAL_ARGUMENT /\ NothingChanged)
            /\ ( /\ invocation.code = USR_ILLEGAL_ARGUMENT
                 /\ v1 # v2
                 /\ is_positive(p.data_cap_amount_to_remove) )
               => (~Registered(prior.st, v1) \/ ~Registered(prior.st, v2))

\* Verifier 101 signed a removal that succeeded and was then removed: its
\* signature over its current counter, 1, no longer authorises a removal.
C10_Witness ==
    /\ Removed
    /\ invocation.params = SignedRequest(103, BigFrom(1), 101, 102, 1, 1)
    /\ proposal_id(prior.st.remove_data_cap_proposal_ids, 101, 103) = 1
    /\ proposal_id(prior.st.remove_data_cap_proposal_ids, 102, 103) = 1
    /\ ~Registered(prior.st, 101)
    /\ Registered(prior.st, 102)
    /\ invocation.code = USR_ILLEGAL_ARGUMENT

\* C11: a removal whose data_cap_amount_to_remove is zero or negative ends
\* illegal-argument, makes no call to the token actor and leaves the State,
\* every counter included, and the balances as they were.
C11_NonPositiveAmountRefused ==
    (Removed /\ BigCmp(invocation.params.data_cap_amount_to_remove, BigZero) <= 0) =>
        /\ invocation.code = USR_ILLEGAL_ARGUMENT
        /\ invocation.calls = <<>>
        /\ remove_data_cap_proposal_ids = prior.st.remove_data_cap_proposal_ids
        /\ NothingChanged

\* Two different registered verifiers signed, over their current counters, a
\* removal of zero bytes from client 103: only the amount is at fault.
C11_Witness ==
    /\ Removed
    /\ invocation.params = SignedRequest(103, BigFrom(0), 101, 102, 0, 0)
    /\ Registered(prior.st, 101)
    /\ Registered(prior.st, 102)
    /\ proposal_id(prior.st.remove_data_cap_proposal_ids, 101, 103) = 0
    /\ proposal_id(prior.st.remove_data_cap_proposal_ids, 102, 103) = 0
    /\ ~is_zero(prior.balances[103])
    /\ invocation.code = USR_ILLEGAL_ARGUMENT

\* C12: when the client's balance is zero (or less than one byte's worth of
\* tokens), a removal for a positive amount with both signatures valid, whose
\* call to the token actor succeeds, ends ok, returns data_cap_removed = 0,
\* leaves the balance as it was and advances both counters by 1.
C12_ZeroBalanceStillConsumesIds ==
    Removed =>
        LET p == invocation.params
            c == p.verified_client_to_remove
            a == p.data_cap_amount_to_remove
            v1 == p.verifier_request_1.verifier
            v2 == p.verifier_request_2.verifier
            cur1 == proposal_id(prior.st.remove_data_cap_proposal_ids, v1, c)
            cur2 == proposal_id(prior.st.remove_data_cap_proposal_ids, v2, c)
        IN  ( /\ is_zero(from_tokens(prior.balances[c]))
              /\ Admissible(prior.st, p)
              /\ p = SignedRequest(c, a, v1, v2, cur1, cur2)
              /\ \A i \in DOMAIN invocation.calls : invocation.calls[i].code = OK )
            => /\ invocation.code = OK
               /\ invocation.value = RemoveDataCapReturn(c, DataCap_zero)
               /\ balances[c] = prior.balances[c]
               /\ proposal_id(remove_data_cap_proposal_ids, v1, c) = cur1 + 1
               /\ proposal_id(remove_data_cap_proposal_ids, v2, c) = cur2 + 1

\* An earlier removal took both bytes of client 103; the next one, signed
\* over id 1, removes nothing and takes both counters to 2.
C12_Witness ==
    /\ RemovalSucceeded
    /\ invocation.params.verified_client_to_remove = 103
    /\ is_positive(invocation.params.data_cap_amount_to_remove)
    /\ prior.balances[103] = BigZero
    /\ invocation.value.data_cap_removed = DataCap_zero
    /\ balances[103] = BigZero
    /\ proposal_id(prior.st.remove_data_cap_proposal_ids, 101, 103) = 1
    /\ proposal_id(remove_data_cap_proposal_ids, 101, 103) = 2
    /\ proposal_id(remove_data_cap_proposal_ids, 102, 103) = 2

\* C13: for every data cap n that is not negative, from_tokens(to_tokens(n))
\* is n, and to_tokens(n) is n times 10^18: to_tokens(0) is 0 and
\* to_tokens(n + 1) is to_tokens(n) + 10^18.
C13_ToTokensRoundTrips ==
    (Called("to_tokens") /\ BigCmp(invocation.d, BigZero) >= 0) =>
        /\ from_tokens(invocation.value) = invocation.d
        /\ invocation.d = BigZero => invocation.value = BigZero
        /\ to_tokens(BigAdd(invocation.d, BigFrom(1)))
               = BigAdd(invocation.value, TOKEN_PRECISION)
        /\ to_tokens(BigFrom(1)) = TOKEN_PRECISION

\* to_tokens of 10^9 - 1 + 10^9 * (10^9 - 1), whose successor carries
\* through both limbs.
C13_Witness ==
    /\ Called("to_tokens")
    /\ invocation.d = [neg |-> FALSE, mag |-> <<LimbBase - 1, LimbBase - 1>>]
    /\ invocation.value =
           [neg |-> FALSE, mag |-> <<0, 0, LimbBase - 1, LimbBase - 1>>]
    /\ from_tokens(invocation.value) = invocation.d

\* The quotient q of t by 10^18 rounded toward minus infinity:
\* q * 10^18 <= t < (q + 1) * 10^18.
IsFloor(q, t) ==
    /\ BigCmp(to_tokens(q), t) <= 0
    /\ BigCmp(t, to_tokens(BigAdd(q, BigFrom(1)))) < 0

\* The quotient q of t by 10^18 rounded toward zero: the floor of a t that is
\* not negative, and otherwise (q - 1) * 10^18 < t <= q * 10^18.
IsTruncation(q, t) ==
    IF BigCmp(t, BigZero) >= 0 THEN IsFloor(q, t)
    ELSE /\ BigCmp(to_tokens(BigSub(q, BigFrom(1))), t) < 0
         /\ BigCmp(t, to_tokens(q)) <= 0

\* C14 as stated: from_tokens(t) is the floor of t / 10^18 for every token
\* quantity t, negative ones included.
C14_FloorOfEveryQuantity ==
    Called("from_tokens") => IsFloor(invocation.value, invocation.t)

\* C14, amended: from_tokens(t) is t / 10^18 with the remainder truncated
\* toward zero, for every token quantity t; that is the floor of t / 10^18
\* exactly when t is not negative or is a multiple of 10^18.  For t >= 0 the
\* result q has q * 10^18 <= t < (q + 1) * 10^18, so to_tokens(from_tokens(t))
\* is never more than t.
C14_TruncatesTowardZero ==
    Called("from_tokens") =>
        LET t == invocation.t
            q == invocation.value
        IN  /\ IsTruncation(q, t)
            /\ IsFloor(q, t) <=> (BigCmp(t, BigZero) >= 0 \/ to_tokens(q) = t)
            /\ BigCmp(t, BigZero) >= 0 =>
                   /\ IsFloor(q, t)
                   /\ BigCmp(to_tokens(from_tokens(t)), t) <= 0

\* from_tokens of minus one token and a half is -1, where the floor is -2.
C14_Witness ==
    /\ Called("from_tokens")
    /\ invocation.t = [neg |-> TRUE, mag |-> <<0, LimbBase \div 2, 1>>]
    /\ invocation.value = BigFrom(-1)
    /\ ~IsFloor(invocation.value, invocation.t)

\* The bytes of the key of the pair (first, second), as the test builds it.
PairKeyBytes(first, second) == Address_to_bytes(first) \o Address_to_bytes(second)

\* C15: a removal for client c with requests from verifiers v1 and v2 changes
\* no entry of proposal_ids but those of (v1, c) and (v2, c), and no balance
\* but c's: the counter of every other pair, those of (c, v1) and (c, v2)
\* included, every verifier's allowance, root_key and token are as before.
C15_RemovalTouchesOnlyItsPairs ==
    Removed =>
        LET c == invocation.params.verified_client_to_remove
            v1 == invocation.params.verifier_request_1.verifier
            v2 == invocation.params.verifier_request_2.verifier
            own == {PairKeyBytes(v1, c), PairKeyBytes(v2, c)}
            old == prior.st.remove_data_cap_proposal_ids
            new == remove_data_cap_proposal_ids
        IN  /\ root_key = prior.st.root_key
            /\ token = prior.st.token
            /\ verifiers = prior.st.verifiers
            /\ \A k \in (DOMAIN old \cup DOMAIN new) \ own :
                   MapGet(new, k) = MapGet(old, k)
            /\ \A v \in {v1, v2} :
                   PairKeyBytes(c, v) \notin own =>
                       MapGet(new, PairKeyBytes(c, v)) = MapGet(old, PairKeyBytes(c, v))
            /\ \A d \in ClientAddrs \ {c} : balances[d] = prior.balances[d]

\* Verifiers 101 and 102 have removed from client 103 and now remove from
\* client 200, an account that is also a verifier: their counters for 103
\* stay 1, those for 200 become 1, no counter of 200 as a verifier appears,
\* and the balance of 103 and both allowances are as they were.
C15_Witness ==
    /\ RemovalSucceeded
    /\ invocation.params.verified_client_to_remove = 200
    /\ invocation.params.verifier_request_1.verifier = 101
    /\ invocation.params.verifier_request_2.verifier = 102
    /\ Registered(Self, 200)
    /\ MapGet(prior.st.remove_data_cap_proposal_ids, PairKeyBytes(101, 103)) = Some(1)
    /\ MapGet(remove_data_cap_proposal_ids, PairKeyBytes(101, 103)) = Some(1)
    /\ MapGet(remove_data_cap_proposal_ids, PairKeyBytes(102, 103)) = Some(1)
    /\ MapGet(prior.st.remove_data_cap_proposal_ids, PairKeyBytes(101, 200)) = None
    /\ MapGet(remove_data_cap_proposal_ids, PairKeyBytes(101, 200)) = Some(1)
    /\ MapGet(remove_data_cap_proposal_ids, PairKeyBytes(102, 200)) = Some(1)
    /\ MapGet(remove_data_cap_proposal_ids, PairKeyBytes(200, 101)) = None
    /\ MapGet(remove_data_cap_proposal_ids, PairKeyBytes(200, 102)) = None
    /\ balances[103] = prior.balances[103]
    /\ MapGet(verifiers, Address_to_bytes(101)) = Some(DataCap_zero)
    /\ MapGet(verifiers, Address_to_bytes(102)) = Some(VerifierAllowance)

\* C16: a removal request (one client, amount, pair of verifiers and pair of
\* signatures) succeeds at most once in any sequence of messages: once it has
\* succeeded, every later message with the same request fails and leaves the
\* State and the balances as they were.
C16_RequestSucceedsAtMostOnce ==
    /\ \A p \in DOMAIN succeeded : succeeded[p] = 1
    /\ (Removed /\ invocation.code = OK) =>
           invocation.params \in DOMAIN succeeded
    /\ (Removed /\ invocation.code # OK /\ invocation.params \in DOMAIN succeeded) =>
           NothingChanged

\* The first request of the test is sent again after it and a second request
\* succeeded, to verifiers that are both registered: it is refused.
C16_Witness ==
    /\ Removed
    /\ invocation.params = SignedRequest(103, BigFrom(1), 101, 102, 0, 0)
    /\ invocation.params \in DOMAIN succeeded
    /\ Cardinality(DOMAIN succeeded) = 2
    /\ Registered(prior.st, 101)
    /\ Registered(prior.st, 102)
    /\ invocation.code = USR_FORBIDDEN
    /\ NothingChanged

\* C17: in every step the counter of every (verifier, client) pair stays or
\* grows, and every step but a removal that succeeds leaves proposal_ids as it
\* was: a removal that fails, put_verifier and remove_verifier change no
\* counter, so a verifier removed and added again has the counters it had, and
\* a signature over an id below the current counter is refused.
C17_CountersNeverDecrease ==
    /\ [][ /\ \A v \in VerifierAddrs, c \in ClientAddrs :
                proposal_id(remove_data_cap_proposal_ids', v, c)
                    >= proposal_id(remove_data_cap_proposal_ids, v, c)
           /\ ~(invocation'.method = "remove_verified_client_data_cap"
                    /\ invocation'.code = OK)
                => remove_data_cap_proposal_ids' = remove_data_cap_proposal_ids
         ]_vars
    /\ [](Removed =>
            LET p == invocation.params
                c == p.verified_client_to_remove
                old(request) ==
                    \E id \in Ids :
                        /\ id < proposal_id(prior.st.remove_data_cap_proposal_ids,
                                            request.verifier, c)
                        /\ request.signature =
                               Signed(request.verifier, c,
                                      p.data_cap_amount_to_remove, id)
            IN  (old(p.verifier_request_1) \/ old(p.verifier_request_2))
                    => invocation.code # OK)

\* Verifier 101, registered from the start, signed a removal from client 103,
\* was removed, and is now added again: its counter for 103 is still 1.
C17_Witness ==
    /\ Called("put_verifier")
    /\ invocation.verifier = 101
    /\ invocation.code = OK
    /\ ~Registered(prior.st, 101)
    /\ Registered(Self, 101)
    /\ proposal_id(prior.st.remove_data_cap_proposal_ids, 101, 103) = 1
    /\ proposal_id(remove_data_cap_proposal_ids, 101, 103) = 1

\* C18: put_verifier(v, cap) and remove_verifier(v), whether they succeed or
\* fail, leave root_key, token and remove_data_cap_proposal_ids as they were
\* and leave the entry of every verifier other than v as it was; root_key is
\* in every state the one the State was constructed with.
C18_VerifierMethodsTouchOneEntry ==
    /\ root_key = RootAddr
    /\ (Called("put_verifier") \/ Called("remove_verifier")) =>
           /\ root_key = prior.st.root_key
           /\ token = prior.st.token
           /\ remove_data_cap_proposal_ids = prior.st.remove_data_cap_proposal_ids
           /\ balances = prior.balances
           /\ \A k \in (DOMAIN verifiers \cup DOMAIN prior.st.verifiers)
                          \ {Address_to_bytes(invocation.verifier)} :
                  MapGet(verifiers, k) = MapGet(prior.st.verifiers, k)

\* remove_verifier has removed verifier 102, after removals that advanced
\* counters: verifier 101 has its cap of zero, verifier 200 its allowance, and
\* the counters are the ones there were.
C18_Witness ==
    /\ Called("remove_verifier")
    /\ invocation.verifier = 102
    /\ invocation.code = OK
    /\ Registered(prior.st, 102)
    /\ ~Registered(Self, 102)
    /\ MapGet(verifiers, Address_to_bytes(101)) = Some(DataCap_zero)
    /\ MapGet(verifiers, Address_to_bytes(200)) = Some(VerifierAllowance)
    /\ proposal_id(remove_data_cap_proposal_ids, 102, 103) = 1
    /\ remove_data_cap_proposal_ids = prior.st.remove_data_cap_proposal_ids

\* The call that destroys the token equivalent of what the last removal
\* removed from its client, as the token actor returned from it.
DestroyOfRemoved ==
    [to |-> TokenActorAddr, method |-> "Destroy",
     params |-> [owner |-> invocation.params.verified_client_to_remove,
                 amount |-> to_tokens(invocation.value.data_cap_removed)],
     code |-> OK]

C20_StoreFailuresAreIllegalState ==
    (Called("put_verifier") \/ Called("remove_verifier") \/ Called("get_verifier_cap")) =>
        LET absent == ~Registered(prior.st, invocation.verifier)
            not_found == /\ Called("remove_verifier")
                         /\ absent
                         /\ invocation.store \notin {"load", "delete"}
            \* remove_verifier returns before the flush when nothing is found
            hit == invocation.store # "none" /\ ~not_found
        IN  /\ invocation.code \in {OK, USR_ILLEGAL_STATE, USR_ILLEGAL_ARGUMENT}
            /\ invocation.code = USR_ILLEGAL_STATE <=> hit
            /\ invocation.code = USR_ILLEGAL_ARGUMENT <=> not_found
            /\ (invocation.store = "none" /\ absent) =>
                   invocation.code # USR_ILLEGAL_STATE

\* get_verifier_cap of a verifier that has an entry, where the map's get
\* fails, ends illegal-state.
C20_Witness ==
    /\ Called("get_verifier_cap")
    /\ invocation.store = "get"
    /\ Registered(prior.st, invocation.verifier)
    /\ invocation.code = USR_ILLEGAL_STATE
    /\ invocation.value = None

\* C21: the State that State::new(store, root_key, token) returns has the
\* given root_key and token; its verifiers map and its proposal_ids map are
\* empty and have one root; get_verifier_cap returns absent for every
\* address, and every (verifier, client) pair has no counter, so that its
\* proposal id is 0.
C21_NewStateIsEmpty ==
    (Called("new") /\ invocation.code = OK) =>
        /\ root_key = invocation.root_key
        /\ token = invocation.token
        /\ verifiers = EmptyMap
        /\ remove_data_cap_proposal_ids = EmptyMap
        /\ verifiers = remove_data_cap_proposal_ids
        /\ \A a \in Addrs \cup {root_key, token} :
               get_verifier_cap(Self, a, "none") = Result(OK, Self, None)
        /\ \A v \in Addrs \cup {root_key}, c \in Addrs :
               /\ MapGet(remove_data_cap_proposal_ids, PairKeyBytes(v, c)) = None
               /\ MapGet(remove_data_cap_proposal_ids, PairKeyBytes(c, v)) = None
               /\ proposal_id(remove_data_cap_proposal_ids, v, c) = 0

\* State::new has returned a State for the second root key and the second
\* token actor.
C21_Witness ==
    /\ Called("new")
    /\ invocation.code = OK
    /\ invocation.store = "none"
    /\ invocation.root_key = RootAddr + 1
    /\ invocation.token = TokenActorAddr + 1
    /\ root_key = RootAddr + 1
    /\ token = TokenActorAddr + 1
    /\ DOMAIN verifiers = {}

\* s is the start of t and shorter than t.
IsProperPrefix(s, t) == Len(s) < Len(t) /\ SubSeq(t, 1, Len(s)) = s

\* No address's encoding is the start of another address's encoding.
PrefixFree(addresses) ==
    \A a \in addresses, b \in addresses :
        ~IsProperPrefix(Address_to_bytes(a), Address_to_bytes(b))

\* C22: the key of (first, second) is the bytes of first followed by the
\* bytes of second, in the order given; where no address's encoding is a
\* proper prefix of another's, no other ordered pair has the same key, so
\* the key of (second, first) is another one unless first = second.
C22_PairKeyIsOrderedAndInjective ==
    Called("to_bytes") =>
        LET first == Address_to_bytes(invocation.first)
            second == Address_to_bytes(invocation.second)
            key == invocation.value
        IN  /\ Len(key) = Len(first) + Len(second)
            /\ SubSeq(key, 1, Len(first)) = first
            /\ SubSeq(key, Len(first) + 1, Len(key)) = second
            /\ PrefixFree(KeyAddrs) =>
                   /\ \A c \in KeyAddrs, d \in KeyAddrs :
                          AddrPairKey_to_bytes(AddrPairKey_new(c, d)) = key =>
                              (c = invocation.first /\ d = invocation.second)
                   /\ invocation.first # invocation.second =>
                          AddrPairKey_to_bytes(
                              AddrPairKey_new(invocation.second, invocation.first)) # key

\* The key of (200, 103): an address of two id bytes before one of one, the
\* larger id first.
C22_Witness ==
    /\ Called("to_bytes")
    /\ invocation.first = 200
    /\ invocation.second = 103
    /\ invocation.value = <<0, 200, 1, 0, 103>>
    /\ PrefixFree(KeyAddrs)
====
